---- MODULE Spec2Model ----
(***************************************************************************)
(* Royal Stay hotel management system: the Room ledger (room.py), the      *)
(* Booking aggregate (booking.py) and the Guest reservation history        *)
(* (guest.py).                                                             *)
(*                                                                         *)
(* A datetime is an integer number of ticks, TicksPerDay ticks to the day, *)
(* so that a stay need not be a whole number of days.  Prices and costs    *)
(* are whole amounts.                                                      *)
(*                                                                         *)
(* Every method is an operator from the objects it reads to a record with  *)
(* what the call returns (ret) and the objects as the call leaves them; an *)
(* action applies the operator to the state.  ret is "True" or "False" for *)
(* a returned bool and the message for a raised ValueError, the objects    *)
(* being then as they were when the exception was raised.                  *)
(***************************************************************************)
EXTENDS Integers, Sequences, FiniteSets, TLC

\* ---- bounds -------------------------------------------------------------
NumRooms    == 2
NumGuests   == 1
MaxBookings == 2
MaxDate     == 2
TicksPerDay == 2
MaxPrice    == 2
MaxHistory  == 2

Rooms      == 1..NumRooms
Guests     == 1..NumGuests
BookingIds == 1..MaxBookings
Dates      == 0..MaxDate
Prices     == 0..MaxPrice

VARIABLES
    room,       \* room[r]    : the Room object r  (_price_per_night, _bookings,
                \*              _is_available) and, for concurrent callers, its lock
    booking,    \* booking[b] : the Booking object b, for the bookings constructed so
                \*              far, with the position (pc, arg) of the caller inside
                \*              add_room when calls run concurrently, and the
                \*              Payment objects constructed for it (payments)
    guest       \* guest[g]   : the Guest object g (_reservations)

vars == <<room, booking, guest>>

\* ---- results of a call ---------------------------------------------------
True            == "True"
False           == "False"
InvalidRange    == "ValueError: Check-in date must be before check-out date"
RoomUnavailable == "ValueError: Room is not available for the requested dates"
EmptyBooking    == "ValueError: Cannot create a booking with no rooms"
NegativePrice   == "ValueError: Price cannot be negative"
NotConfirmed    == "ValueError: Cannot send confirmation for an unconfirmed booking"
PaymentUnsuccessful == "ValueError: Cannot generate invoice for an unsuccessful payment"
None            == "None"

\* ---- lists ---------------------------------------------------------------
RECURSIVE SumSeq(_)
SumSeq(s) == IF s = <<>> THEN 0 ELSE Head(s) + SumSeq(Tail(s))

\* x in list
InList(x, s) == \E i \in DOMAIN s : s[i] = x

\* list.remove(x): drops the first element equal to x
RECURSIVE ListRemove(_, _)
ListRemove(s, x) ==
    IF s = <<>> THEN <<>>
    ELSE IF Head(s) = x THEN Tail(s)
    ELSE <<Head(s)>> \o ListRemove(Tail(s), x)

\* ---- Room ----------------------------------------------------------------
\* mutant: the loop returns after looking at the first stored interval only
ScanBookings_FirstOnly(ledger, check_in_date, check_out_date) ==
    IF ledger = <<>> THEN True
    ELSE IF check_in_date < Head(ledger)[2] /\ check_out_date > Head(ledger)[1]
         THEN False
         ELSE True

\* mutant: a request overlaps only when its check-in falls inside a stored interval
RECURSIVE ScanBookings_StartOnly(_, _, _)
ScanBookings_StartOnly(ledger, check_in_date, check_out_date) ==
    IF ledger = <<>> THEN True
    ELSE IF check_in_date < Head(ledger)[2] /\ check_in_date >= Head(ledger)[1]
         THEN False
         ELSE ScanBookings_StartOnly(Tail(ledger), check_in_date, check_out_date)

\* mutant: closed intervals, a request that touches a stored interval overlaps it
RECURSIVE ScanBookings_Closed(_, _, _)
ScanBookings_Closed(ledger, check_in_date, check_out_date) ==
    IF ledger = <<>> THEN True
    ELSE IF check_in_date <= Head(ledger)[2] /\ check_out_date >= Head(ledger)[1]
         THEN False
         ELSE ScanBookings_Closed(Tail(ledger), check_in_date, check_out_date)

\* the loop of Room.check_availability: the first stored interval that
\* overlaps the request returns False
RECURSIVE ScanBookings(_, _, _)
ScanBookings(ledger, check_in_date, check_out_date) ==
    IF ledger = <<>> THEN True
    ELSE IF check_in_date < Head(ledger)[2] /\ check_out_date > Head(ledger)[1]
         THEN False
         ELSE ScanBookings(Tail(ledger), check_in_date, check_out_date)
\* mutant: an empty range (check-in = check-out) passes the range validation
check_availability_EmptyRangeOk(ledger, check_in_date, check_out_date) ==
    IF check_in_date > check_out_date
    THEN InvalidRange
    ELSE ScanBookings(ledger, check_in_date, check_out_date)
\* mutant: the ledger is not scanned, every valid range is reported free
check_availability_NoScan(ledger, check_in_date, check_out_date) ==
    IF check_in_date >= check_out_date
    THEN InvalidRange
    ELSE True
\* mutant: a stored interval equal to the requested range is not a conflict
check_availability_SameRangeFree(ledger, check_in_date, check_out_date) ==
    IF check_in_date >= check_out_date
    THEN InvalidRange
    ELSE ScanBookings(SelectSeq(ledger, LAMBDA iv : iv # <<check_in_date, check_out_date>>),
                      check_in_date, check_out_date)

\* Room.check_availability(check_in_date, check_out_date), on the room's _bookings
check_availability(ledger, check_in_date, check_out_date) ==
    IF check_in_date >= check_out_date
    THEN InvalidRange
    ELSE ScanBookings(ledger, check_in_date, check_out_date)

\* mutant: the availability is not checked again, only the range is
add_booking_NoRecheck(ledger, check_in_date, check_out_date) ==
    IF check_in_date >= check_out_date
    THEN [ret |-> InvalidRange, bookings |-> ledger]
    ELSE [ret |-> True,
          bookings |-> Append(ledger, <<check_in_date, check_out_date>>)]

\* Room.add_booking(check_in_date, check_out_date), on the room's _bookings
add_booking(ledger, check_in_date, check_out_date) ==
    LET avail == check_availability(ledger, check_in_date, check_out_date) IN
    IF avail = InvalidRange THEN [ret |-> InvalidRange, bookings |-> ledger]
    ELSE IF avail # True THEN [ret |-> RoomUnavailable, bookings |-> ledger]
    ELSE [ret |-> True,
          bookings |-> Append(ledger, <<check_in_date, check_out_date>>)]

\* the setter of Room.price_per_night, on the Room object
price_per_night_setter(rm, value) ==
    IF value < 0
    THEN [ret |-> NegativePrice, room |-> rm]
    ELSE [ret |-> True, room |-> [rm EXCEPT !.price_per_night = value]]

\* Room.update_status(is_available), on the Room object
update_status(rm, is_available) ==
    [ret |-> None, room |-> [rm EXCEPT !.is_available = is_available]]

\* ---- Guest ---------------------------------------------------------------
\* Guest.add_reservation(reservation), on the guest's _reservations
add_reservation(reservations, b) == Append(reservations, b)
\* mutant: a started day counts as a whole day
days_RoundUp(delta) == (delta + TicksPerDay - 1) \div TicksPerDay

\* ---- Booking -------------------------------------------------------------
\* timedelta.days: whole days, rounded towards minus infinity
days(delta) == delta \div TicksPerDay

\* Booking._update_total_cost: the new _total_cost of booking bk, rooms rm
update_total_cost(bk, rm) ==
    LET nights == days(bk.check_out_date - bk.check_in_date) IN
    SumSeq([i \in DOMAIN bk.rooms |-> rm[bk.rooms[i]].price_per_night * nights])

\* Booking.__init__(guest, check_in_date, check_out_date)
Booking(g, check_in_date, check_out_date) ==
    [guest |-> g, rooms |-> <<>>,
     check_in_date |-> check_in_date, check_out_date |-> check_out_date,
     total_cost |-> 0, is_confirmed |-> FALSE, is_canceled |-> FALSE,
     pc |-> "idle", arg |-> 0, payments |-> <<>>]

\* mutant: the room is appended to the list before its availability is checked
add_room_AppendFirst(bk, r, rm) ==
    LET bk1   == [bk EXCEPT !.rooms = Append(@, r)]
        avail == check_availability(rm[r].bookings, bk.check_in_date, bk.check_out_date)
    IN
    IF avail = InvalidRange THEN [ret |-> InvalidRange, booking |-> bk, room |-> rm]
    ELSE IF avail # True THEN [ret |-> RoomUnavailable, booking |-> bk1, room |-> rm]
    ELSE LET rm2 == [rm EXCEPT ![r].bookings =
                        Append(@, <<bk.check_in_date, bk.check_out_date>>)]
         IN  [ret |-> True,
              booking |-> [bk1 EXCEPT !.total_cost = update_total_cost(bk1, rm2)],
              room |-> rm2]

\* mutant: the room is inserted at the front of the list
add_room_Prepend(bk, r, rm) ==
    LET avail == check_availability(rm[r].bookings, bk.check_in_date, bk.check_out_date) IN
    IF avail = InvalidRange THEN [ret |-> InvalidRange, booking |-> bk, room |-> rm]
    ELSE IF avail # True THEN [ret |-> RoomUnavailable, booking |-> bk, room |-> rm]
    ELSE LET rm2 == [rm EXCEPT ![r].bookings =
                        Append(@, <<bk.check_in_date, bk.check_out_date>>)]
             bk2 == [bk EXCEPT !.rooms = <<r>> \o @]
         IN  [ret |-> True,
              booking |-> [bk2 EXCEPT !.total_cost = update_total_cost(bk2, rm2)],
              room |-> rm2]
\* mutant: attaching a room confirms the booking
add_room_AutoConfirm(bk, r, rm) ==
    LET avail == check_availability(rm[r].bookings, bk.check_in_date, bk.check_out_date) IN
    IF avail = InvalidRange THEN [ret |-> InvalidRange, booking |-> bk, room |-> rm]
    ELSE IF avail # True THEN [ret |-> RoomUnavailable, booking |-> bk, room |-> rm]
    ELSE LET rm2 == [rm EXCEPT ![r].bookings =
                        add_booking(@, bk.check_in_date, bk.check_out_date).bookings]
             bk2 == [bk EXCEPT !.rooms = Append(@, r), !.is_confirmed = TRUE]
         IN  [ret |-> True,
              booking |-> [bk2 EXCEPT !.total_cost = update_total_cost(bk2, rm2)],
              room |-> rm2]
\* mutant: a room flagged unavailable is refused
add_room_FlagChecked(bk, r, rm) ==
    LET avail == check_availability(rm[r].bookings, bk.check_in_date, bk.check_out_date) IN
    IF avail = InvalidRange THEN [ret |-> InvalidRange, booking |-> bk, room |-> rm]
    ELSE IF avail # True \/ ~rm[r].is_available
         THEN [ret |-> RoomUnavailable, booking |-> bk, room |-> rm]
    ELSE LET rm2 == [rm EXCEPT ![r].bookings =
                        add_booking(@, bk.check_in_date, bk.check_out_date).bookings]
             bk2 == [bk EXCEPT !.rooms = Append(@, r)]
         IN  [ret |-> True,
              booking |-> [bk2 EXCEPT !.total_cost = update_total_cost(bk2, rm2)],
              room |-> rm2]

\* Booking.add_room(room): bk the booking, r the room, rm all the rooms
add_room(bk, r, rm) ==
    LET avail == check_availability(rm[r].bookings, bk.check_in_date, bk.check_out_date) IN
    IF avail = InvalidRange THEN [ret |-> InvalidRange, booking |-> bk, room |-> rm]
    ELSE IF avail # True THEN [ret |-> RoomUnavailable, booking |-> bk, room |-> rm]
    ELSE LET added == add_booking(rm[r].bookings, bk.check_in_date, bk.check_out_date) IN
         IF added.ret # True THEN [ret |-> added.ret, booking |-> bk, room |-> rm]
         ELSE LET rm2 == [rm EXCEPT ![r].bookings = added.bookings]
                  bk2 == [bk EXCEPT !.rooms = Append(@, r)]
              IN  [ret |-> True,
                   booking |-> [bk2 EXCEPT !.total_cost = update_total_cost(bk2, rm2)],
                   room |-> rm2]
\* mutant: the total cost is not recomputed after the removal
remove_room_NoRecompute(bk, r, rm) ==
    IF InList(r, bk.rooms)
    THEN [ret |-> True, booking |-> [bk EXCEPT !.rooms = ListRemove(@, r)]]
    ELSE [ret |-> False, booking |-> bk]

\* Booking.remove_room(room)
remove_room(bk, r, rm) ==
    IF InList(r, bk.rooms)
    THEN LET bk2 == [bk EXCEPT !.rooms = ListRemove(@, r)] IN
         [ret |-> True, booking |-> [bk2 EXCEPT !.total_cost = update_total_cost(bk2, rm)]]
    ELSE [ret |-> False, booking |-> bk]

\* mutant: the guard against an empty room list is missing
create_booking_NoGuard(b, bk, gst) ==
    [ret |-> True,
     booking |-> [bk EXCEPT !.is_confirmed = TRUE],
     guest |-> [gst EXCEPT ![bk.guest].reservations = add_reservation(@, b)]]
\* mutant: confirming a canceled booking brings it back
create_booking_Revives(b, bk, gst) ==
    IF bk.rooms = <<>>
    THEN [ret |-> EmptyBooking, booking |-> bk, guest |-> gst]
    ELSE [ret |-> True,
          booking |-> [bk EXCEPT !.is_confirmed = TRUE, !.is_canceled = FALSE],
          guest |-> [gst EXCEPT ![bk.guest].reservations = add_reservation(@, b)]]

\* Booking.create_booking(): b the booking's identity, gst all the guests
create_booking(b, bk, gst) ==
    IF bk.rooms = <<>>
    THEN [ret |-> EmptyBooking, booking |-> bk, guest |-> gst]
    ELSE [ret |-> True,
          booking |-> [bk EXCEPT !.is_confirmed = TRUE],
          guest |-> [gst EXCEPT ![bk.guest].reservations = add_reservation(@, b)]]

\* mutant: the confirmed flag is not cleared
cancel_booking_KeepConfirmed(bk) ==
    IF bk.is_canceled
    THEN [ret |-> False, booking |-> bk]
    ELSE [ret |-> True, booking |-> [bk EXCEPT !.is_canceled = TRUE]]
\* mutant: the early return on an already canceled booking is missing
cancel_booking_NoEarlyReturn(bk) ==
    [ret |-> True,
     booking |-> [bk EXCEPT !.is_canceled = TRUE, !.is_confirmed = FALSE]]

\* Booking.cancel_booking()
cancel_booking(bk) ==
    IF bk.is_canceled
    THEN [ret |-> False, booking |-> bk]
    ELSE [ret |-> True,
          booking |-> [bk EXCEPT !.is_canceled = TRUE, !.is_confirmed = FALSE]]
\* mutant: the confirmation is sent whatever the status
send_confirmation_NoGuard(bk) ==
    [ret |-> True, booking |-> bk]

\* Booking.send_confirmation()
send_confirmation(bk) ==
    IF ~bk.is_confirmed
    THEN [ret |-> NotConfirmed, booking |-> bk]
    ELSE [ret |-> True, booking |-> bk]
\* mutant: the stored total is returned without being recomputed
calculate_total_Cached(bk, rm) ==
    [ret |-> bk.total_cost, booking |-> bk]

\* Booking.calculate_total(): ret is the number returned
calculate_total(bk, rm) ==
    LET bk2 == [bk EXCEPT !.total_cost = update_total_cost(bk, rm)] IN
    [ret |-> bk2.total_cost, booking |-> bk2]

\* ---- the state machine ---------------------------------------------------
\* Room.__init__ : a price, flagged available, an empty ledger (and no lock:
\* lock is "none");  Guest.__init__: no reservations
Init ==
    /\ room = [r \in Rooms |-> [price_per_night |-> r, bookings |-> <<>>,
                                is_available |-> TRUE, lock |-> "none"]]
    /\ booking = <<>>
    /\ guest = [g \in Guests |-> [reservations |-> <<>>]]

\* a client constructs a Booking
NewBooking(g, ci, co) ==
    /\ Len(booking) < MaxBookings
    /\ booking' = Append(booking, Booking(g, ci, co))
    /\ UNCHANGED <<room, guest>>

\* a client calls room.check_availability(ci, co): a query, no effect
CheckAvailability(r, ci, co) ==
    /\ check_availability(room[r].bookings, ci, co) \in {True, False, InvalidRange}
    /\ UNCHANGED vars

\* a client calls room.add_booking(ci, co)
AddBooking(r, ci, co) ==
    /\ room' = [room EXCEPT ![r].bookings = add_booking(@, ci, co).bookings]
    /\ UNCHANGED <<booking, guest>>

\* a client calls booking.add_room(room)
AddRoom(b, r) ==
    /\ b \in DOMAIN booking
    /\ LET res == add_room(booking[b], r, room) IN
       /\ booking' = [booking EXCEPT ![b] = res.booking]
       /\ room' = res.room
    /\ UNCHANGED guest
\* mutant: removing a room also takes the booking's interval out of its ledger
RemoveRoom_Release(b, r) ==
    /\ b \in DOMAIN booking
    /\ booking' = [booking EXCEPT ![b] = remove_room(@, r, room).booking]
    /\ room' = IF InList(r, booking[b].rooms)
               THEN [room EXCEPT ![r].bookings =
                        SelectSeq(@, LAMBDA iv : iv # <<booking[b].check_in_date,
                                                       booking[b].check_out_date>>)]
               ELSE room
    /\ UNCHANGED guest

\* a client calls booking.remove_room(room)
RemoveRoom(b, r) ==
    /\ b \in DOMAIN booking
    /\ booking' = [booking EXCEPT ![b] = remove_room(@, r, room).booking]
    /\ UNCHANGED <<room, guest>>

\* a client calls booking.create_booking()
CreateBooking(b) ==
    /\ b \in DOMAIN booking
    /\ Len(guest[booking[b].guest].reservations) < MaxHistory
    /\ LET res == create_booking(b, booking[b], guest) IN
       /\ booking' = [booking EXCEPT ![b] = res.booking]
       /\ guest' = res.guest
    /\ UNCHANGED room
\* mutant: cancelling gives the booking's interval back to its rooms
CancelBooking_Release(b) ==
    /\ b \in DOMAIN booking
    /\ booking' = [booking EXCEPT ![b] = cancel_booking(@).booking]
    /\ room' = [r \in Rooms |->
                  IF InList(r, booking[b].rooms)
                  THEN [room[r] EXCEPT !.bookings =
                          SelectSeq(@, LAMBDA iv : iv # <<booking[b].check_in_date,
                                                         booking[b].check_out_date>>)]
                  ELSE room[r]]
    /\ UNCHANGED guest

\* a client calls booking.cancel_booking()
CancelBooking(b) ==
    /\ b \in DOMAIN booking
    /\ booking' = [booking EXCEPT ![b] = cancel_booking(@).booking]
    /\ UNCHANGED <<room, guest>>

\* a client assigns room.price_per_night = value
SetPrice(r, value) ==
    /\ room' = [room EXCEPT ![r] = price_per_night_setter(@, value).room]
    /\ UNCHANGED <<booking, guest>>

\* a client calls room.update_status(is_available)
UpdateStatus(r, is_available) ==
    /\ room' = [room EXCEPT ![r] = update_status(@, is_available).room]
    /\ UNCHANGED <<booking, guest>>

\* a client calls booking.send_confirmation(): prints, no effect
SendConfirmation(b) ==
    /\ b \in DOMAIN booking
    /\ booking' = [booking EXCEPT ![b] = send_confirmation(@).booking]
    /\ UNCHANGED <<room, guest>>

\* a client calls booking.calculate_total()
CalculateTotal(b) ==
    /\ b \in DOMAIN booking
    /\ booking' = [booking EXCEPT ![b] = calculate_total(@, room).booking]
    /\ UNCHANGED <<room, guest>>

\* the booking interface: the operations on a Booking
Next ==
    \/ \E g \in Guests, ci \in Dates, co \in Dates : NewBooking(g, ci, co)
    \/ \E b \in BookingIds, r \in Rooms : AddRoom(b, r)
    \/ \E b \in BookingIds, r \in Rooms : RemoveRoom(b, r)
    \/ \E b \in BookingIds : CreateBooking(b)
    \/ \E b \in BookingIds : CancelBooking(b)
    \/ \E b \in BookingIds : SendConfirmation(b)
    \/ \E b \in BookingIds : CalculateTotal(b)

Spec == Init /\ [][Next]_vars

\* the room interface used directly, next to bookings that add rooms
NextRoom ==
    \/ \E r \in Rooms, ci \in Dates, co \in Dates : CheckAvailability(r, ci, co)
    \/ \E r \in Rooms, ci \in Dates, co \in Dates : AddBooking(r, ci, co)
    \/ \E g \in Guests, ci \in Dates, co \in Dates : NewBooking(g, ci, co)
    \/ \E b \in BookingIds, r \in Rooms : AddRoom(b, r)

SpecRoom == Init /\ [][NextRoom]_vars

\* the booking interface while the prices of the rooms change
NextPrice ==
    \/ Next
    \/ \E r \in Rooms, value \in Prices \cup {-1} : SetPrice(r, value)

SpecPrice == Init /\ [][NextPrice]_vars

\* the room interface with the administrative flag, next to bookings that add rooms
NextStatus ==
    \/ NextRoom
    \/ \E r \in Rooms, is_available \in BOOLEAN : UpdateStatus(r, is_available)

SpecStatus == Init /\ [][NextStatus]_vars

\* ---- properties ------------------------------------------------------------
\* the half-open overlap test on two intervals <<start, end>>
Overlap(x, y) == x[1] < y[2] /\ x[2] > y[1]

Interval(bk) == <<bk.check_in_date, bk.check_out_date>>

Ledger(r) == room[r].bookings

\* some interval stored in the ledger of room r overlaps <<ci, co>>
Taken(r, ci, co) == \E i \in DOMAIN Ledger(r) : Overlap(Ledger(r)[i], <<ci, co>>)

Attached(b, r) == \E i \in DOMAIN booking[b].rooms : booking[b].rooms[i] = r

\* C1: no two intervals stored at different places of the same room's ledger
\* overlap (start1 < end2 and end1 > start2), whatever sequence of
\* Room.add_booking and Booking.add_room calls was made.
C1_NoOverlapInLedger ==
    \A r \in Rooms : \A i, j \in DOMAIN Ledger(r) :
        i # j => ~Overlap(Ledger(r)[i], Ledger(r)[j])

\* a ledger holds two intervals, one of them reserved through a booking's
\* add_room and the other one by a direct add_booking
C1_Witness ==
    \E r \in Rooms : \E i, j \in DOMAIN Ledger(r) :
        /\ i # j
        /\ \E b \in DOMAIN booking : Attached(b, r) /\ Interval(booking[b]) = Ledger(r)[i]
        /\ \A b \in DOMAIN booking : Interval(booking[b]) # Ledger(r)[j]

\* C2: no room is in the room lists of two distinct confirmed bookings whose
\* intervals overlap.
C2_NoDoubleBooking ==
    \A b1, b2 \in DOMAIN booking :
        ( /\ b1 # b2
          /\ booking[b1].is_confirmed /\ booking[b2].is_confirmed
          /\ Overlap(Interval(booking[b1]), Interval(booking[b2])) )
        => \A r \in Rooms : ~(Attached(b1, r) /\ Attached(b2, r))

\* two distinct confirmed bookings have overlapping intervals (and so hold
\* different rooms), after the second one was refused the room of the first
C2_Witness ==
    \E b1, b2 \in DOMAIN booking :
        /\ b1 # b2
        /\ booking[b1].is_confirmed /\ booking[b2].is_confirmed
        /\ Overlap(Interval(booking[b1]), Interval(booking[b2]))
        /\ \E r \in Rooms : Attached(b1, r) /\ ~Attached(b2, r)
                              /\ Taken(r, booking[b2].check_in_date, booking[b2].check_out_date)

\* C3: for every range with check-in < check-out and every ledger,
\* check_availability returns False exactly when some stored interval (s, e)
\* has s < check-out and e > check-in, and True otherwise: True for an empty
\* ledger and for a range that only touches a stored interval.
C3_CheckAvailability ==
    \A r \in Rooms : \A ci, co \in Dates :
        ci < co =>
            LET res == check_availability(Ledger(r), ci, co) IN
            /\ res = (IF \E i \in DOMAIN Ledger(r) :
                            Ledger(r)[i][1] < co /\ Ledger(r)[i][2] > ci
                      THEN False ELSE True)
            /\ (Ledger(r) = <<>> => res = True)
            /\ ( /\ \E i \in DOMAIN Ledger(r) : Ledger(r)[i][2] = ci \/ Ledger(r)[i][1] = co
                 /\ \A i \in DOMAIN Ledger(r) : Ledger(r)[i][2] <= ci \/ Ledger(r)[i][1] >= co
                 => res = True )

\* a ledger holds an interval that one valid range touches at its end (and the
\* query answers True) and another valid range overlaps (and it answers False)
C3_Witness ==
    \E r \in Rooms : \E i \in DOMAIN Ledger(r) : \E ci, co, ci2, co2 \in Dates :
        /\ ci < co /\ Ledger(r)[i][2] = ci /\ ~Taken(r, ci, co)
        /\ check_availability(Ledger(r), ci, co) = True
        /\ ci2 < co2 /\ Overlap(Ledger(r)[i], <<ci2, co2>>)
        /\ check_availability(Ledger(r), ci2, co2) = False

\* C4: when the interval of a booking overlaps an interval stored in the
\* room's ledger, add_room raises the room-unavailable error and leaves the
\* booking (room list, total cost, status) and every ledger as they were.
C4_Overlapping(b, r) ==
    /\ b \in DOMAIN booking
    /\ booking[b].check_in_date < booking[b].check_out_date
    /\ Taken(r, booking[b].check_in_date, booking[b].check_out_date)

C4_AddRoomRejected ==
    /\ [](\A b \in BookingIds : \A r \in Rooms :
            C4_Overlapping(b, r) =>
                LET res == add_room(booking[b], r, room) IN
                /\ res.ret = RoomUnavailable
                /\ res.booking = booking[b]
                /\ res.room = room)
    /\ [][\A b \in BookingIds : \A r \in Rooms :
            C4_Overlapping(b, r) /\ AddRoom(b, r) => UNCHANGED <<booking, room, guest>>]_vars

\* a booking without the room r has an interval that overlaps the interval
\* another booking reserved in r: the state add_room(r) is rejected in
C4_Witness ==
    \E b1, b2 \in DOMAIN booking : \E r \in Rooms :
        /\ b1 # b2
        /\ Attached(b1, r) /\ ~Attached(b2, r)
        /\ booking[b2].check_in_date < booking[b2].check_out_date
        /\ Overlap(Interval(booking[b1]), Interval(booking[b2]))
        /\ add_room(booking[b2], r, room).ret = RoomUnavailable

\* C5: Room.add_booking checks the availability itself: for a free range it
\* returns True and the ledger is the old one with that interval appended;
\* for a range that overlaps a stored interval it raises the room-unavailable
\* error and the ledger is unchanged.
C5_AddBooking ==
    /\ [](\A r \in Rooms : \A ci, co \in Dates :
            ci < co =>
                LET res == add_booking(Ledger(r), ci, co) IN
                IF Taken(r, ci, co)
                THEN res.ret = RoomUnavailable /\ res.bookings = Ledger(r)
                ELSE res.ret = True /\ res.bookings = Append(Ledger(r), <<ci, co>>))
    /\ [][\A r \in Rooms : \A ci, co \in Dates :
            ci < co /\ AddBooking(r, ci, co) =>
                IF Taken(r, ci, co)
                THEN UNCHANGED room
                ELSE room' = [room EXCEPT ![r].bookings = Append(@, <<ci, co>>)]]_vars

\* add_booking alone has filled the ledgers: one holds two intervals, and one
\* has a valid range that is still free and a valid range that is taken
C5_Witness ==
    \E r, r2 \in Rooms : \E ci, co, ci2, co2 \in Dates :
        /\ Len(Ledger(r)) >= 2
        /\ Len(Ledger(r2)) >= 1
        /\ \A b \in DOMAIN booking : booking[b].rooms = <<>>
        /\ ci < co /\ Taken(r2, ci, co)
        /\ ci2 < co2 /\ ~Taken(r2, ci2, co2)

\* C6: when the room is available for the booking's interval, add_room
\* returns True, the room list is the old one with the room appended, the
\* room's ledger is the old one with the booking's interval appended (the
\* other ledgers and the prices are unchanged) and the status is unchanged.
C6_Available(b, r) ==
    /\ b \in DOMAIN booking
    /\ booking[b].check_in_date < booking[b].check_out_date
    /\ ~Taken(r, booking[b].check_in_date, booking[b].check_out_date)

C6_AddRoomAccepted ==
    /\ [](\A b \in BookingIds : \A r \in Rooms :
            C6_Available(b, r) => add_room(booking[b], r, room).ret = True)
    /\ [][\A b \in BookingIds : \A r \in Rooms :
            C6_Available(b, r) /\ AddRoom(b, r) =>
                /\ booking'[b].rooms = Append(booking[b].rooms, r)
                /\ room' = [room EXCEPT ![r].bookings = Append(@, Interval(booking[b]))]
                /\ booking'[b].is_confirmed = booking[b].is_confirmed
                /\ booking'[b].is_canceled = booking[b].is_canceled]_vars

\* a booking to which add_room has attached a second room after a first one,
\* each room holding the booking's interval in its ledger
C6_Witness ==
    \E b \in DOMAIN booking :
        /\ Len(booking[b].rooms) >= 2
        /\ \A i \in DOMAIN booking[b].rooms :
              \E k \in DOMAIN Ledger(booking[b].rooms[i]) :
                  Ledger(booking[b].rooms[i])[k] = Interval(booking[b])

\* nights x the sum of the current prices of the rooms attached to booking b
CostOf(b) ==
    LET bk == booking[b] IN
    ((bk.check_out_date - bk.check_in_date) \div TicksPerDay)
        * SumSeq([i \in DOMAIN bk.rooms |-> room[bk.rooms[i]].price_per_night])

\* C7: the stored total cost of every booking is nights x the sum of the
\* current nightly prices of the rooms attached to it, also while the prices
\* of rooms are changed through the price_per_night setter.
C7_TotalCostCurrent ==
    \A b \in DOMAIN booking : booking[b].total_cost = CostOf(b)

\* C8: create_booking on a booking with an empty room list raises the
\* empty-booking error and leaves the booking (its confirmed and canceled
\* flags) and the guest's reservation history as they were.
C8_CreateEmptyRejected ==
    /\ [](\A b \in DOMAIN booking :
            Len(booking[b].rooms) = 0 =>
                LET res == create_booking(b, booking[b], guest) IN
                /\ res.ret = EmptyBooking
                /\ res.booking = booking[b]
                /\ res.guest = guest)
    /\ [][\A b \in DOMAIN booking :
            Len(booking[b].rooms) = 0 /\ CreateBooking(b) =>
                UNCHANGED <<booking, guest, room>>]_vars

\* a booking whose room list is empty while the guest's history is not: the
\* state create_booking is rejected in
C8_Witness ==
    \E b \in DOMAIN booking :
        /\ booking[b].rooms = <<>>
        /\ guest[booking[b].guest].reservations # <<>>
        /\ create_booking(b, booking[b], guest).ret = EmptyBooking

\* C9: a booking that is confirmed has a non-empty room list.
C9_ConfirmedHasRooms ==
    \A b \in DOMAIN booking : booking[b].is_confirmed => booking[b].rooms # <<>>

\* C10: cancel_booking on a booking that is not canceled, pending or
\* confirmed, returns True and leaves it canceled and not confirmed.
C10_Cancel ==
    /\ [](\A b \in DOMAIN booking :
            ~booking[b].is_canceled => cancel_booking(booking[b]).ret = True)
    /\ [][\A b \in DOMAIN booking :
            ~booking[b].is_canceled /\ CancelBooking(b) =>
                booking'[b].is_canceled /\ ~booking'[b].is_confirmed]_vars

\* a booking that was confirmed (it is in the guest's history) and that
\* cancel_booking has left canceled and not confirmed, next to a confirmed one
C10_Witness ==
    \E b1, b2 \in DOMAIN booking :
        /\ booking[b1].is_canceled /\ ~booking[b1].is_confirmed
        /\ InList(b1, guest[booking[b1].guest].reservations)
        /\ booking[b2].is_confirmed /\ ~booking[b2].is_canceled

\* C11: cancel_booking on a booking that is already Canceled returns False
\* (it does not raise) and leaves the whole state as it was: the booking's
\* flags, room list and total cost, every room's ledger and the guest's
\* history; cancelling twice leaves the booking as cancelling once does.
C11_CancelAgain ==
    /\ [](\A b \in DOMAIN booking :
            /\ booking[b].is_canceled =>
                   /\ cancel_booking(booking[b]).ret = False
                   /\ cancel_booking(booking[b]).booking = booking[b]
            /\ LET once == cancel_booking(booking[b]).booking IN
               cancel_booking(once).booking = once)
    /\ [][\A b \in DOMAIN booking :
            booking[b].is_canceled /\ CancelBooking(b) => UNCHANGED vars]_vars

\* a canceled booking that holds a room, has a total cost and is in the
\* guest's history, and whose confirmed flag was set again by a later
\* create_booking: a second cancel_booking has all of this to leave alone
C11_Witness ==
    \E b \in DOMAIN booking :
        /\ booking[b].is_canceled /\ booking[b].is_confirmed
        /\ booking[b].rooms # <<>> /\ booking[b].total_cost > 0
        /\ InList(b, guest[booking[b].guest].reservations)

History(g) == guest[g].reservations

\* C12: a guest's history holds exactly one entry for each booking on which
\* create_booking has succeeded and none for any other booking: an entry
\* appears only in a successful create_booking step of that booking, no
\* booking is in the history twice, and create_booking on a booking that is
\* already Confirmed leaves the history unchanged.
C12_HistoryOncePerBooking ==
    /\ [](\A g \in Guests : \A i, j \in DOMAIN History(g) :
            i # j => History(g)[i] # History(g)[j])
    /\ [][\A b \in DOMAIN booking :
            LET g == booking[b].guest IN
            /\ CreateBooking(b) /\ booking[b].rooms # <<>> => InList(b, History(g)')
            /\ InList(b, History(g)') /\ ~InList(b, History(g)) =>
                   CreateBooking(b) /\ booking[b].rooms # <<>>
            /\ booking[b].is_confirmed /\ CreateBooking(b) => UNCHANGED guest]_vars

\* the interval of booking b is stored in the ledger of room r
InLedger(b, r) == InList(Interval(booking[b]), Ledger(r))

\* C13: cancel_booking and remove_room leave every room's ledger unchanged:
\* the booking's interval stays in the ledger of each room that was ever
\* attached to it (it is there while the room is attached, and once there it
\* stays), and cancel_booking also leaves the booking's room list and total
\* cost unchanged.
C13_LedgerKeptOnCancelAndRemove ==
    /\ [](\A b \in DOMAIN booking : \A r \in Rooms : Attached(b, r) => InLedger(b, r))
    /\ [][/\ \A b \in DOMAIN booking : \A r \in Rooms :
                /\ RemoveRoom(b, r) => room' = room
                /\ InLedger(b, r) => InLedger(b, r)'
          /\ \A b \in DOMAIN booking :
                CancelBooking(b) =>
                    /\ room' = room
                    /\ booking'[b].rooms = booking[b].rooms
                    /\ booking'[b].total_cost = booking[b].total_cost]_vars

\* a canceled booking still holds one room, and its interval is still in the
\* ledger of that room and in the ledger of a room that was removed from it
C13_Witness ==
    \E b \in DOMAIN booking : \E r1, r2 \in Rooms :
        /\ booking[b].is_canceled
        /\ Attached(b, r1) /\ InLedger(b, r1)
        /\ ~Attached(b, r2) /\ InLedger(b, r2)
        /\ \A b2 \in DOMAIN booking : b2 # b => ~InLedger(b2, r2)

\* s is t or a beginning of t
IsPrefix(s, t) == Len(s) <= Len(t) /\ \A i \in DOMAIN s : s[i] = t[i]

\* C14: an interval accepted into a room's ledger stays there: every step
\* leaves each ledger equal to, or an extension of, what it was; and while a
\* booking's interval is in a room's ledger (from the add_room that succeeded
\* on, whatever happens to the booking afterwards) check_availability on that
\* room returns False for every valid range that overlaps the interval.
C14_LedgerOnlyGrows ==
    /\ [][\A r \in Rooms : IsPrefix(Ledger(r), Ledger(r)')]_vars
    /\ [][\A b \in DOMAIN booking : \A r \in Rooms :
            AddRoom(b, r) /\ add_room(booking[b], r, room).ret = True =>
                InLedger(b, r)']_vars
    /\ [](\A b \in DOMAIN booking : \A r \in Rooms :
            InLedger(b, r) =>
                \A ci, co \in Dates :
                    ci < co /\ Overlap(Interval(booking[b]), <<ci, co>>) =>
                        check_availability(Ledger(r), ci, co) = False)

\* a room's ledger holds two intervals, the first of a booking that was
\* canceled afterwards and has given the room up, the second added later
C14_Witness ==
    \E r \in Rooms : \E b \in DOMAIN booking :
        /\ Len(Ledger(r)) = 2
        /\ Ledger(r)[1] = Interval(booking[b]) /\ Ledger(r)[2] # Ledger(r)[1]
        /\ booking[b].is_canceled /\ ~Attached(b, r)

\* the room list of booking b without room r, the others in their order
RoomsWithout(b, r) == SelectSeq(booking[b].rooms, LAMBDA x : x # r)

\* nights x the sum of the current prices of the rooms in list rs
CostOfRooms(b, rs) ==
    ((booking[b].check_out_date - booking[b].check_in_date) \div TicksPerDay)
        * SumSeq([i \in DOMAIN rs |-> room[rs[i]].price_per_night])

C16_InvalidRange ==
    /\ [](\A r \in Rooms :
            /\ \A ci, co \in Dates :
                 ci >= co =>
                    /\ check_availability(Ledger(r), ci, co) = InvalidRange
                    /\ add_booking(Ledger(r), ci, co) =
                           [ret |-> InvalidRange, bookings |-> Ledger(r)]
            /\ \A b \in DOMAIN booking :
                 booking[b].check_in_date >= booking[b].check_out_date =>
                    add_room(booking[b], r, room) =
                        [ret |-> InvalidRange, booking |-> booking[b], room |-> room])
    /\ [][\A r \in Rooms :
            /\ \A ci, co \in Dates :
                 ci >= co /\ (AddBooking(r, ci, co) \/ CheckAvailability(r, ci, co))
                    => UNCHANGED vars
            /\ \A b \in DOMAIN booking :
                 booking[b].check_in_date >= booking[b].check_out_date /\ AddRoom(b, r)
                    => UNCHANGED vars]_vars

\* a booking with check-in >= check-out exists next to a room with an empty
\* ledger and a room whose ledger holds an interval around the booking's dates
C16_Witness ==
    \E b \in DOMAIN booking : \E r1, r2 \in Rooms :
        /\ booking[b].check_in_date >= booking[b].check_out_date
        /\ booking[b].rooms = <<>>
        /\ Ledger(r1) = <<>>
        /\ \E i \in DOMAIN Ledger(r2) :
              /\ Ledger(r2)[i][1] < booking[b].check_out_date
              /\ Ledger(r2)[i][2] > booking[b].check_in_date

\* C17: a newly constructed booking is Pending with an empty room list and a
\* total cost of 0; a booking's confirmed flag goes from false to true only
\* in a create_booking step that succeeds (the room list is not empty); no
\* add_room, remove_room, cancel_booking, calculate_total or
\* send_confirmation step sets it.
C17_ConfirmedOnlyByCreate ==
    /\ [][\A b \in DOMAIN booking' :
            b \notin DOMAIN booking =>
                /\ ~booking'[b].is_confirmed /\ ~booking'[b].is_canceled
                /\ booking'[b].rooms = <<>>
                /\ booking'[b].total_cost = 0]_vars
    /\ [][\A b \in DOMAIN booking :
            /\ ~booking[b].is_confirmed /\ booking'[b].is_confirmed =>
                   /\ CreateBooking(b)
                   /\ create_booking(b, booking[b], guest).ret = True
                   /\ booking[b].rooms # <<>>
            /\ ( /\ ~booking[b].is_confirmed
                 /\ \/ \E r \in Rooms : AddRoom(b, r) \/ RemoveRoom(b, r)
                    \/ CancelBooking(b) \/ CalculateTotal(b) \/ SendConfirmation(b) )
               => ~booking'[b].is_confirmed]_vars

\* a confirmed booking, registered with its guest, next to a booking that
\* holds a room with a refreshed total cost and is still not confirmed
C17_Witness ==
    \E b1, b2 \in DOMAIN booking :
        /\ booking[b1].is_confirmed /\ ~booking[b1].is_canceled
        /\ InList(b1, guest[booking[b1].guest].reservations)
        /\ ~booking[b2].is_confirmed /\ booking[b2].rooms # <<>>
        /\ booking[b2].total_cost = CostOfRooms(b2, booking[b2].rooms)
        /\ \E r \in Rooms : Attached(b2, r) /\ room[r].price_per_night # r

\* C18: every booking that exists has its check-in date strictly before its
\* check-out date, whatever pair of dates its constructor was given.
C18_BookingRangeValid ==
    \A b \in DOMAIN booking : booking[b].check_in_date < booking[b].check_out_date

\* ---- add_room calls that run concurrently ----------------------------------
\* Each booking is driven by its own thread; booking[b].pc is the line of
\* add_room (or of the add_booking it calls) the thread is about to run and
\* booking[b].arg the room it was called with.  A room either has no lock
\* (lock = "none", as in the code) or a lock that a caller holds from before
\* the first availability check until after the append.

\* a caller takes the lock of a room that has one
acquire(rm) == [rm EXCEPT !.lock = IF @ = "none" THEN "none" ELSE "held"]

\* a caller gives the lock back
release(rm) == [rm EXCEPT !.lock = IF @ = "none" THEN "none" ELSE "free"]

\* rooms with and without a lock, no bookings yet
InitConc ==
    /\ \E l \in [Rooms -> {"none", "free"}] :
          room = [r \in Rooms |-> [price_per_night |-> r, bookings |-> <<>>,
                                   is_available |-> TRUE, lock |-> l[r]]]
    /\ booking = <<>>
    /\ guest = [g \in Guests |-> [reservations |-> <<>>]]

\* a thread enters booking.add_room(room); it waits while the lock is held
AddRoomCall(b, r) ==
    /\ b \in DOMAIN booking
    /\ booking[b].pc = "idle"
    /\ room[r].lock # "held"
    /\ room' = [room EXCEPT ![r] = acquire(@)]
    /\ booking' = [booking EXCEPT ![b].pc = "l57", ![b].arg = r]
    /\ UNCHANGED guest

\* add_room: if not room.check_availability(...): raise
AddRoomCheck(b) ==
    /\ b \in DOMAIN booking
    /\ booking[b].pc = "l57"
    /\ LET r == booking[b].arg IN
       IF check_availability(room[r].bookings, booking[b].check_in_date,
                             booking[b].check_out_date) = True
       THEN /\ booking' = [booking EXCEPT ![b].pc = "l82"]
            /\ UNCHANGED room
       ELSE /\ booking' = [booking EXCEPT ![b].pc = "idle", ![b].arg = 0]
            /\ room' = [room EXCEPT ![r] = release(@)]
    /\ UNCHANGED guest

\* add_booking: if not self.check_availability(...): raise
AddBookingCheck(b) ==
    /\ b \in DOMAIN booking
    /\ booking[b].pc = "l82"
    /\ LET r == booking[b].arg IN
       IF check_availability(room[r].bookings, booking[b].check_in_date,
                             booking[b].check_out_date) = True
       THEN /\ booking' = [booking EXCEPT ![b].pc = "l85"]
            /\ UNCHANGED room
       ELSE /\ booking' = [booking EXCEPT ![b].pc = "idle", ![b].arg = 0]
            /\ room' = [room EXCEPT ![r] = release(@)]
    /\ UNCHANGED guest

\* add_booking: self._bookings.append((check_in_date, check_out_date))
AddBookingAppend(b) ==
    /\ b \in DOMAIN booking
    /\ booking[b].pc = "l85"
    /\ LET r == booking[b].arg IN
       room' = [room EXCEPT ![r] =
                  release([@ EXCEPT !.bookings =
                             Append(@, <<booking[b].check_in_date,
                                         booking[b].check_out_date>>)])]
    /\ booking' = [booking EXCEPT ![b].pc = "l63"]
    /\ UNCHANGED guest

\* add_room: self._rooms.append(room); self._update_total_cost(); return True
AddRoomAttach(b) ==
    /\ b \in DOMAIN booking
    /\ booking[b].pc = "l63"
    /\ LET bk2 == [booking[b] EXCEPT !.rooms = Append(@, booking[b].arg)] IN
       booking' = [booking EXCEPT ![b] =
                     [bk2 EXCEPT !.total_cost = update_total_cost(bk2, room),
                                 !.pc = "idle", !.arg = 0]]
    /\ UNCHANGED <<room, guest>>

NextConc ==
    \/ \E g \in Guests, ci, co \in Dates : NewBooking(g, ci, co)
    \/ \E b \in BookingIds, r \in Rooms : AddRoomCall(b, r)
    \/ \E b \in BookingIds : AddRoomCheck(b)
    \/ \E b \in BookingIds : AddBookingCheck(b)
    \/ \E b \in BookingIds : AddBookingAppend(b)
    \/ \E b \in BookingIds : AddRoomAttach(b)

SpecConc == InitConc /\ [][NextConc]_vars

\* two bookings with overlapping intervals both hold room r
DoubleReserved(r) ==
    \E b1, b2 \in DOMAIN booking :
        /\ b1 # b2
        /\ Attached(b1, r) /\ Attached(b2, r)
        /\ Overlap(Interval(booking[b1]), Interval(booking[b2]))

\* the ledger of room r holds two overlapping intervals
OverlapInLedger(r) ==
    \E i, j \in DOMAIN Ledger(r) : i # j /\ Overlap(Ledger(r)[i], Ledger(r)[j])

\* C19: when add_room calls on the same room run concurrently and the
\* availability check and the append are separate steps with no lock, some
\* interleaving lets two calls with overlapping intervals both succeed and
\* leaves two overlapping intervals in the ledger (C19_Witness is that
\* state); when check and append are atomic per room (the room has a lock
\* held from the check to the append), no such state is reachable.
C19_AtomicNoOverlap ==
    \A r \in Rooms :
        room[r].lock # "none" => ~OverlapInLedger(r) /\ ~DoubleReserved(r)

\* a room without a lock: both concurrent add_room calls have returned True
\* and the ledger holds the two overlapping intervals
C19_Witness ==
    \E r \in Rooms :
        /\ room[r].lock = "none"
        /\ OverlapInLedger(r) /\ DoubleReserved(r)
        /\ \A b \in DOMAIN booking : booking[b].pc = "idle"

\* the rooms, with the administrative flag of room r set to v
WithFlag(r, v) == [room EXCEPT ![r].is_available = v]

\* C20: update_status changes only the room's administrative flag and leaves
\* its ledger (and everything else) unchanged; check_availability,
\* add_booking and add_room give the same result whether the flag is true or
\* false: a room flagged unavailable is reserved like any other.
C20_FlagIndependent ==
    /\ [][\A r \in Rooms : \A v \in BOOLEAN :
            UpdateStatus(r, v) =>
                /\ room' = WithFlag(r, v)
                /\ Ledger(r)' = Ledger(r)
                /\ UNCHANGED <<booking, guest>>]_vars
    /\ [](\A r \in Rooms :
            /\ \A b \in DOMAIN booking :
                 LET t == add_room(booking[b], r, WithFlag(r, TRUE))
                     f == add_room(booking[b], r, WithFlag(r, FALSE))
                 IN  /\ t.ret = f.ret
                     /\ t.booking = f.booking
                     /\ \A x \in Rooms : t.room[x].bookings = f.room[x].bookings
                     /\ t.room = [f.room EXCEPT ![r].is_available = TRUE]
            /\ ~room[r].is_available =>
                 /\ \A b \in DOMAIN booking :
                      add_room(booking[b], r, room).ret =
                          (IF booking[b].check_in_date >= booking[b].check_out_date
                           THEN InvalidRange
                           ELSE IF Taken(r, booking[b].check_in_date, booking[b].check_out_date)
                           THEN RoomUnavailable ELSE True)
                 /\ \A ci, co \in Dates :
                      ci < co =>
                        /\ check_availability(Ledger(r), ci, co) =
                               (IF Taken(r, ci, co) THEN False ELSE True)
                        /\ add_booking(Ledger(r), ci, co).ret =
                               (IF Taken(r, ci, co) THEN RoomUnavailable ELSE True))
    /\ [][\A r \in Rooms :
            ~room[r].is_available =>
                /\ \A ci, co \in Dates :
                     ci < co /\ ~Taken(r, ci, co) /\ AddBooking(r, ci, co) =>
                        Ledger(r)' = Append(Ledger(r), <<ci, co>>)
                /\ \A b \in DOMAIN booking :
                     ( /\ booking[b].check_in_date < booking[b].check_out_date
                       /\ ~Taken(r, booking[b].check_in_date, booking[b].check_out_date)
                       /\ AddRoom(b, r) )
                     => Attached(b, r)' /\ InLedger(b, r)']_vars

\* a room flagged unavailable holds a reservation and is free for the valid
\* range of a booking that does not hold it yet, next to a room flagged
\* available
C20_Witness ==
    \E r, r2 \in Rooms : \E b \in DOMAIN booking :
        /\ ~room[r].is_available /\ room[r2].is_available
        /\ Ledger(r) # <<>>
        /\ booking[b].check_in_date < booking[b].check_out_date
        /\ ~Attached(b, r)
        /\ ~Taken(r, booking[b].check_in_date, booking[b].check_out_date)

\* C21: send_confirmation returns True exactly when the booking's confirmed
\* flag is set; on a Pending booking, and on one that was confirmed and then
\* canceled, it raises the unconfirmed-booking error; it never changes state.
C21_SendConfirmation ==
    /\ [](\A b \in DOMAIN booking :
            /\ send_confirmation(booking[b]).ret =
                   (IF booking[b].is_confirmed THEN True ELSE NotConfirmed)
            /\ send_confirmation(booking[b]).booking = booking[b]
            /\ ~booking[b].is_confirmed /\ ~booking[b].is_canceled =>
                   send_confirmation(booking[b]).ret = NotConfirmed)
    /\ [][\A b \in DOMAIN booking :
            /\ SendConfirmation(b) => UNCHANGED vars
            /\ booking[b].is_confirmed /\ ~booking[b].is_canceled /\ CancelBooking(b) =>
                   send_confirmation(booking'[b]).ret = NotConfirmed]_vars

\* a booking that was confirmed (it is in the guest's history) and then
\* canceled, next to a booking that is confirmed
C21_Witness ==
    \E b1, b2 \in DOMAIN booking :
        /\ booking[b1].is_canceled /\ ~booking[b1].is_confirmed
        /\ InList(b1, guest[booking[b1].guest].reservations)
        /\ booking[b2].is_confirmed /\ ~booking[b2].is_canceled

\* C22: whatever add_room and remove_room calls came before, calculate_total
\* returns nights x the sum of the current nightly prices of the rooms then
\* attached (0 for an empty room list) and stores it; a second call right
\* after returns the same value and leaves the booking as the first did.
C22_CalculateTotal ==
    /\ [](\A b \in DOMAIN booking :
            LET first  == calculate_total(booking[b], room)
                second == calculate_total(first.booking, room)
            IN  /\ first.ret = CostOfRooms(b, booking[b].rooms)
                /\ booking[b].rooms = <<>> => first.ret = 0
                /\ second.ret = first.ret
                /\ second.booking = first.booking)
    /\ [][\A b \in DOMAIN booking :
            CalculateTotal(b) =>
                /\ booking' = [booking EXCEPT ![b].total_cost =
                                  CostOfRooms(b, booking[b].rooms)]
                /\ UNCHANGED <<room, guest>>]_vars

\* a booking that gave one room up and holds another whose price changed
\* since the total was stored: calculate_total has a new value to return
C22_Witness ==
    \E b \in DOMAIN booking : \E r1, r2 \in Rooms :
        /\ booking[b].rooms = <<r1>> /\ r1 # r2
        /\ InLedger(b, r2) /\ \A b2 \in DOMAIN booking : b2 # b => ~InLedger(b2, r2)
        /\ booking[b].total_cost # CostOfRooms(b, booking[b].rooms)
        /\ CostOfRooms(b, booking[b].rooms) > 0

\* ---- stays that are not a whole number of days -----------------------------
MaxStay == 3
StayDates == 0..MaxStay

\* two bookings constructed with any dates up to MaxStay, rooms not reserved yet
InitNights ==
    /\ room = [r \in Rooms |-> [price_per_night |-> r, bookings |-> <<>>,
                                is_available |-> TRUE, lock |-> "none"]]
    /\ \E g \in Guests : \E ci1, co1, ci2, co2 \in StayDates :
          booking = <<Booking(g, ci1, co1), Booking(g, ci2, co2)>>
    /\ guest = [g \in Guests |-> [reservations |-> <<>>]]

NextNights ==
    \/ \E b \in BookingIds, r \in Rooms : AddRoom(b, r)
    \/ \E b \in BookingIds, r \in Rooms : RemoveRoom(b, r)
    \/ \E b \in BookingIds : CalculateTotal(b)

SpecNights == InitNights /\ [][NextNights]_vars

\* the length of booking b's stay, in ticks
Stay(b) == booking[b].check_out_date - booking[b].check_in_date

\* C23: the nights billed are the whole days of (check_out - check_in), the
\* rest dropped: a stay of d days and h ticks, h less than a day, is billed d
\* nights for each attached room; a stay shorter than a day with check-in
\* before check-out is accepted by add_room and has total cost 0.
C23_NightsTruncated ==
    /\ [](\A b \in DOMAIN booking :
            \A d \in 0..MaxStay : \A h \in 0..(TicksPerDay - 1) :
                booking[b].check_in_date < booking[b].check_out_date
                /\ Stay(b) = d * TicksPerDay + h =>
                    /\ booking[b].total_cost =
                          d * SumSeq([i \in DOMAIN booking[b].rooms |->
                                         room[booking[b].rooms[i]].price_per_night])
                    /\ calculate_total(booking[b], room).ret = booking[b].total_cost)
    /\ [][\A b \in DOMAIN booking : \A r \in Rooms :
            ( /\ booking[b].check_in_date < booking[b].check_out_date
              /\ Stay(b) < TicksPerDay
              /\ ~Taken(r, booking[b].check_in_date, booking[b].check_out_date)
              /\ AddRoom(b, r) )
            => /\ add_room(booking[b], r, room).ret = True
               /\ Attached(b, r)' /\ InLedger(b, r)'
               /\ booking'[b].total_cost = 0]_vars

\* a stay shorter than a day holds a room at total cost 0, next to a stay of
\* one day and a part that holds a room for one night's price
C23_Witness ==
    \E b1, b2 \in DOMAIN booking : \E r \in Rooms :
        /\ booking[b1].check_in_date < booking[b1].check_out_date
        /\ Stay(b1) < TicksPerDay
        /\ booking[b1].rooms # <<>> /\ booking[b1].total_cost = 0
        /\ Stay(b2) > TicksPerDay /\ Stay(b2) < 2 * TicksPerDay
        /\ booking[b2].rooms = <<r>>
        /\ booking[b2].total_cost = room[r].price_per_night

\* C27: a booking is in exactly one of Pending, Confirmed and Canceled: its
\* confirmed flag and its canceled flag are never both true, whatever
\* create_booking and cancel_booking calls were made, create_booking on a
\* Canceled booking that has rooms included.
C27_OneLifecycleState ==
    \A b \in DOMAIN booking : ~(booking[b].is_confirmed /\ booking[b].is_canceled)

\* C28: Canceled is absorbing: a canceled flag that is true stays true in
\* every later state, whatever operation runs.
C28_CanceledAbsorbing ==
    [][\A b \in DOMAIN booking : booking[b].is_canceled => booking'[b].is_canceled]_vars

\* a canceled booking on which create_booking succeeded afterwards and from
\* which the room was then removed: it is still canceled
C28_Witness ==
    \E b \in DOMAIN booking :
        /\ booking[b].is_canceled /\ booking[b].is_confirmed
        /\ booking[b].rooms = <<>>
        /\ \E r \in Rooms : InLedger(b, r)

\* C29: each room in a booking's room list is there exactly once and has the
\* booking's exact interval in its ledger; add_room on a room whose ledger
\* has the booking's interval is refused and changes nothing, so a room is
\* not attached twice, and since a removed room keeps the interval, not
\* after its removal either.
C29_RoomAttachedOnce ==
    /\ [](\A b \in DOMAIN booking :
            /\ \A i, j \in DOMAIN booking[b].rooms :
                  i # j => booking[b].rooms[i] # booking[b].rooms[j]
            /\ \A r \in Rooms :
                  /\ Attached(b, r) => InLedger(b, r)
                  /\ InLedger(b, r) => add_room(booking[b], r, room).ret = RoomUnavailable)
    /\ [][\A b \in DOMAIN booking : \A r \in Rooms :
            /\ Attached(b, r) /\ ~Attached(b, r)' => InLedger(b, r)'
            /\ InLedger(b, r) /\ AddRoom(b, r) => UNCHANGED vars]_vars

\* a booking holds one room, and the room it gave up, the only reservation
\* in its ledger being that booking's, cannot be attached again
C29_Witness ==
    \E b \in DOMAIN booking : \E r1, r2 \in Rooms :
        /\ booking[b].rooms = <<r1>> /\ r1 # r2
        /\ ~booking[b].is_canceled
        /\ Ledger(r2) = <<Interval(booking[b])>>
        /\ Ledger(r1) = <<Interval(booking[b])>>

\* ---- Payment and Invoice ---------------------------------------------------
\* A payment is kept with the booking it was constructed for, an invoice with
\* the payment that generated it; an invoice is the list of the amounts of
\* its line items (the descriptions play no part in the total).
MaxPayments == 1
MaxInvoices == 1
MaxLines    == 3
MaxItem     == 1
ItemAmounts == (0 - MaxItem)..MaxItem

\* Payment.__init__(booking, amount, payment_method), a valid payment method
Payment(amount) == [amount |-> amount, is_successful |-> FALSE, invoices |-> <<>>]

\* Payment.process_payment()
process_payment(p) == [ret |-> True, payment |-> [p EXCEPT !.is_successful = TRUE]]

\* Invoice.__init__ with _generate_line_items: one line for each room of the booking
Invoice(bk, rm) ==
    LET nights == days(bk.check_out_date - bk.check_in_date) IN
    [i \in DOMAIN bk.rooms |-> rm[bk.rooms[i]].price_per_night * nights]

\* Invoice.add_item(description, amount)
add_item(items, amount) == Append(items, amount)

\* Invoice.calculate_total()
invoice_calculate_total(items) == SumSeq(items)

\* Payment.generate_invoice(): the new invoice is added to those of the payment
generate_invoice(p, bk, rm) ==
    IF ~p.is_successful
    THEN [ret |-> PaymentUnsuccessful, payment |-> p]
    ELSE [ret |-> True, payment |-> [p EXCEPT !.invoices = Append(@, Invoice(bk, rm))]]

\* one booking constructed with any dates, no payment yet
InitInvoice ==
    /\ room = [r \in Rooms |-> [price_per_night |-> r, bookings |-> <<>>,
                                is_available |-> TRUE, lock |-> "none"]]
    /\ \E g \in Guests : \E ci, co \in Dates : booking = <<Booking(g, ci, co)>>
    /\ guest = [g \in Guests |-> [reservations |-> <<>>]]

\* a client constructs Payment(booking, amount, method)
NewPayment(b, amount) ==
    /\ b \in DOMAIN booking
    /\ Len(booking[b].payments) < MaxPayments
    /\ booking' = [booking EXCEPT ![b].payments = Append(@, Payment(amount))]
    /\ UNCHANGED <<room, guest>>

\* a client calls payment.process_payment()
ProcessPayment(b, k) ==
    /\ b \in DOMAIN booking /\ k \in DOMAIN booking[b].payments
    /\ booking' = [booking EXCEPT ![b].payments[k] = process_payment(@).payment]
    /\ UNCHANGED <<room, guest>>

\* a client calls payment.generate_invoice()
GenerateInvoice(b, k) ==
    /\ b \in DOMAIN booking /\ k \in DOMAIN booking[b].payments
    /\ Len(booking[b].payments[k].invoices) < MaxInvoices
    /\ booking' = [booking EXCEPT ![b].payments[k] =
                      generate_invoice(@, booking[b], room).payment]
    /\ UNCHANGED <<room, guest>>

\* a client calls invoice.add_item(description, amount)
AddItem(b, k, j, amount) ==
    /\ b \in DOMAIN booking /\ k \in DOMAIN booking[b].payments
    /\ j \in DOMAIN booking[b].payments[k].invoices
    /\ Len(booking[b].payments[k].invoices[j]) < MaxLines
    /\ booking' = [booking EXCEPT ![b].payments[k].invoices[j] = add_item(@, amount)]
    /\ UNCHANGED <<room, guest>>

NextInvoice ==
    \/ \E b \in BookingIds, r \in Rooms : AddRoom(b, r)
    \/ \E b \in BookingIds, r \in Rooms : RemoveRoom(b, r)
    \/ \E r \in Rooms, value \in Prices : SetPrice(r, value)
    \/ \E b \in BookingIds, amount \in Prices : NewPayment(b, amount)
    \/ \E b \in BookingIds, k \in 1..MaxPayments : ProcessPayment(b, k)
    \/ \E b \in BookingIds, k \in 1..MaxPayments : GenerateInvoice(b, k)
    \/ \E b \in BookingIds, k \in 1..MaxPayments, j \in 1..MaxInvoices, amount \in ItemAmounts :
          AddItem(b, k, j, amount)

SpecInvoice == InitInvoice /\ [][NextInvoice]_vars

\* the invoices of payment k of booking b
Invoices(b, k) == booking[b].payments[k].invoices

\* C24: an invoice generated from a successful payment has one line for each
\* attached room, nights x that room's price, and totals exactly the
\* booking's total cost; each add_item raises the invoice's total by the
\* added amount; generate_invoice fails, and creates nothing, while
\* process_payment has not succeeded.
C24_InvoiceTotal ==
    /\ [][\A b \in DOMAIN booking : \A k \in DOMAIN booking[b].payments :
            booking[b].payments[k].is_successful /\ GenerateInvoice(b, k) =>
                LET inv == Invoices(b, k)'[Len(Invoices(b, k)')] IN
                /\ Len(Invoices(b, k)') = Len(Invoices(b, k)) + 1
                /\ Len(inv) = Len(booking[b].rooms)
                /\ \A i \in DOMAIN inv :
                      inv[i] = (Stay(b) \div TicksPerDay)
                                   * room[booking[b].rooms[i]].price_per_night
                /\ invoice_calculate_total(inv) = booking[b].total_cost]_vars
    /\ [][\A b \in DOMAIN booking : \A k \in DOMAIN booking[b].payments :
            \A j \in DOMAIN Invoices(b, k) : \A amount \in ItemAmounts :
                AddItem(b, k, j, amount) =>
                    invoice_calculate_total(Invoices(b, k)'[j]) =
                        invoice_calculate_total(Invoices(b, k)[j]) + amount]_vars
    /\ [](\A b \in DOMAIN booking : \A k \in DOMAIN booking[b].payments :
            ~booking[b].payments[k].is_successful =>
                /\ generate_invoice(booking[b].payments[k], booking[b], room).ret
                       = PaymentUnsuccessful
                /\ Invoices(b, k) = <<>>)

\* ---- GuestService ----------------------------------------------------------
\* The service requests of a guest are kept with the guest.  completion_time
\* is None or Now, the time of the call that set it.
MaxServices == 2
Staff == {"Ann", "Bob"}
REQUESTED   == "Requested"
ASSIGNED    == "Assigned"
IN_PROGRESS == "In Progress"
COMPLETED   == "Completed"
CANCELED    == "Canceled"
ServiceStatus == {REQUESTED, ASSIGNED, IN_PROGRESS, COMPLETED, CANCELED}
NotAStatus    == "not a ServiceStatus"
InvalidStatus == "ValueError: Status must be a valid ServiceStatus enum value"
Now == "now"

\* GuestService.__init__(guest, room_number, service_type, description)
GuestService ==
    [status |-> REQUESTED, assigned_staff |-> None, completion_time |-> None]

\* GuestService.update_status(new_status)
service_update_status(sv, new_status) ==
    IF new_status \notin ServiceStatus
    THEN [ret |-> InvalidStatus, service |-> sv]
    ELSE [ret |-> True,
          service |-> [sv EXCEPT !.status = new_status,
                                 !.completion_time =
                                     IF new_status = COMPLETED THEN Now ELSE @]]

\* GuestService.assign_staff(staff_name)
assign_staff(sv, staff_name) ==
    [ret |-> True,
     service |-> service_update_status([sv EXCEPT !.assigned_staff = staff_name],
                                       ASSIGNED).service]

\* mutant: a completed request is completed again
complete_service_NoGuard(sv) ==
    service_update_status(sv, COMPLETED)

\* GuestService.complete_service()
complete_service(sv) ==
    IF sv.status = COMPLETED
    THEN [ret |-> False, service |-> sv]
    ELSE service_update_status(sv, COMPLETED)

\* GuestService.cancel_service()
cancel_service(sv) ==
    IF sv.status = COMPLETED
    THEN [ret |-> False, service |-> sv]
    ELSE service_update_status(sv, CANCELED)

\* guests without bookings and without service requests
InitService ==
    /\ room = [r \in Rooms |-> [price_per_night |-> r, bookings |-> <<>>,
                                is_available |-> TRUE, lock |-> "none"]]
    /\ booking = <<>>
    /\ guest = [g \in Guests |-> [reservations |-> <<>>, services |-> <<>>]]

\* a client constructs a GuestService for guest g
NewService(g) ==
    /\ Len(guest[g].services) < MaxServices
    /\ guest' = [guest EXCEPT ![g].services = Append(@, GuestService)]
    /\ UNCHANGED <<room, booking>>

\* a client calls service.update_status(new_status)
ServiceUpdateStatus(g, s, new_status) ==
    /\ s \in DOMAIN guest[g].services
    /\ guest' = [guest EXCEPT ![g].services[s] = service_update_status(@, new_status).service]
    /\ UNCHANGED <<room, booking>>

\* a client calls service.assign_staff(staff_name)
AssignStaff(g, s, staff_name) ==
    /\ s \in DOMAIN guest[g].services
    /\ guest' = [guest EXCEPT ![g].services[s] = assign_staff(@, staff_name).service]
    /\ UNCHANGED <<room, booking>>

\* a client calls service.complete_service()
CompleteService(g, s) ==
    /\ s \in DOMAIN guest[g].services
    /\ guest' = [guest EXCEPT ![g].services[s] = complete_service(@).service]
    /\ UNCHANGED <<room, booking>>

\* a client calls service.cancel_service()
CancelService(g, s) ==
    /\ s \in DOMAIN guest[g].services
    /\ guest' = [guest EXCEPT ![g].services[s] = cancel_service(@).service]
    /\ UNCHANGED <<room, booking>>

NextService ==
    \/ \E g \in Guests : NewService(g)
    \/ \E g \in Guests, s \in 1..MaxServices, new_status \in ServiceStatus \cup {NotAStatus} :
          ServiceUpdateStatus(g, s, new_status)
    \/ \E g \in Guests, s \in 1..MaxServices, staff_name \in Staff : AssignStaff(g, s, staff_name)
    \/ \E g \in Guests, s \in 1..MaxServices : CompleteService(g, s)
    \/ \E g \in Guests, s \in 1..MaxServices : CancelService(g, s)

SpecService == InitService /\ [][NextService]_vars

Services(g) == guest[g].services

\* C25: assign_staff records the staff name and sets the status to ASSIGNED;
\* complete_service returns True and sets the status to COMPLETED from every
\* status but COMPLETED, and on a COMPLETED request returns False and
\* changes nothing; cancel_service on a COMPLETED request returns False and
\* changes nothing.
C25_ServiceRequest ==
    /\ [](\A g \in Guests : \A s \in DOMAIN Services(g) :
            LET sv == Services(g)[s] IN
            /\ \A n \in Staff : assign_staff(sv, n).ret = True
            /\ complete_service(sv).ret = (IF sv.status = COMPLETED THEN False ELSE True)
            /\ sv.status = COMPLETED => cancel_service(sv) = [ret |-> False, service |-> sv])
    /\ [][\A g \in Guests : \A s \in DOMAIN Services(g) :
            LET sv == Services(g)[s] IN
            /\ \A n \in Staff :
                  AssignStaff(g, s, n) =>
                      /\ Services(g)'[s].assigned_staff = n
                      /\ Services(g)'[s].status = ASSIGNED
            /\ CompleteService(g, s) =>
                  IF sv.status = COMPLETED
                  THEN UNCHANGED vars
                  ELSE Services(g)'[s].status = COMPLETED
            /\ sv.status = COMPLETED /\ CancelService(g, s) => UNCHANGED vars]_vars

\* a request with staff assigned is COMPLETED, next to a canceled request
C25_Witness ==
    \E g \in Guests : \E s1, s2 \in DOMAIN Services(g) :
        /\ Services(g)[s1].status = COMPLETED
        /\ Services(g)[s1].assigned_staff \in Staff
        /\ Services(g)[s1].completion_time = Now
        /\ Services(g)[s2].status = CANCELED

\* C30: COMPLETED is terminal: a request whose status is COMPLETED keeps that
\* status under every later assign_staff, update_status, complete_service
\* and cancel_service, and the completion time is set exactly when the
\* status is COMPLETED.
C30_CompletedTerminal ==
    /\ [][\A g \in Guests : \A s \in DOMAIN Services(g) :
            Services(g)[s].status = COMPLETED => Services(g)'[s].status = COMPLETED]_vars
    /\ [](\A g \in Guests : \A s \in DOMAIN Services(g) :
            Services(g)[s].completion_time # None <=> Services(g)[s].status = COMPLETED)

\* ---- LoyaltyProgram --------------------------------------------------------
\* The loyalty account of a guest is kept with the guest.  A stay value is a
\* number of half dollars, so that int(stay_value) has something to drop.
MaxPoints == 10001
Bronze    == 0
Silver    == 1000
Gold      == 5000
Platinum  == 10000
TIER_THRESHOLDS ==
    <<[tier |-> "Platinum", threshold |-> Platinum], [tier |-> "Gold", threshold |-> Gold],
      [tier |-> "Silver", threshold |-> Silver], [tier |-> "Bronze", threshold |-> Bronze]>>
StayValues   == {0, 1, 2, 3, 2 * Silver, 2 * Gold}
RedeemPoints == {0, 1, Silver, Gold}
InsufficientPoints == "ValueError: Insufficient points for redemption"
Redeemed == "redemption value"
Earned   == "points earned"

\* LoyaltyProgram.__init__(member_id, guest)
LoyaltyProgram == [points |-> 0, tier |-> "Bronze"]

\* int(stay_value) for a stay value of so many half dollars
int(halves) == IF halves >= 0 THEN halves \div 2 ELSE 0 - ((0 - halves) \div 2)

\* LoyaltyProgram._update_tier: the first tier, from the highest threshold
\* down, that the points reach; none is reached by a negative balance
update_tier(lp) ==
    LET reached == {i \in DOMAIN TIER_THRESHOLDS : lp.points >= TIER_THRESHOLDS[i].threshold} IN
    IF reached = {} THEN lp
    ELSE [lp EXCEPT !.tier =
             TIER_THRESHOLDS[CHOOSE i \in reached : \A j \in reached : i <= j].tier]

\* LoyaltyProgram.earn_points(stay_value): value is the number returned
earn_points(lp, stay_value) ==
    LET points_earned == int(stay_value) IN
    [ret |-> Earned, value |-> points_earned,
     loyalty |-> update_tier([lp EXCEPT !.points = @ + points_earned])]

\* mutant: the balance is not compared with the points to redeem
redeem_points_NoCheck(lp, points_to_redeem) ==
    [ret |-> Redeemed, value |-> points_to_redeem,
     loyalty |-> update_tier([lp EXCEPT !.points = @ - points_to_redeem])]

\* LoyaltyProgram.redeem_points(points_to_redeem): value is the redemption
\* value returned, in units of 10 cents
redeem_points(lp, points_to_redeem) ==
    IF points_to_redeem > lp.points
    THEN [ret |-> InsufficientPoints, value |-> 0, loyalty |-> lp]
    ELSE [ret |-> Redeemed, value |-> points_to_redeem,
          loyalty |-> update_tier([lp EXCEPT !.points = @ - points_to_redeem])]

\* guests without bookings, each with a new loyalty account
InitLoyalty ==
    /\ room = [r \in Rooms |-> [price_per_night |-> r, bookings |-> <<>>,
                                is_available |-> TRUE, lock |-> "none"]]
    /\ booking = <<>>
    /\ guest = [g \in Guests |-> [reservations |-> <<>>, loyalty |-> LoyaltyProgram]]

\* a client calls loyalty.earn_points(stay_value)
EarnPoints(g, stay_value) ==
    /\ guest[g].loyalty.points + int(stay_value) <= MaxPoints
    /\ guest' = [guest EXCEPT ![g].loyalty = earn_points(@, stay_value).loyalty]
    /\ UNCHANGED <<room, booking>>

\* a client calls loyalty.redeem_points(points_to_redeem)
RedeemPointsCall(g, points_to_redeem) ==
    /\ guest' = [guest EXCEPT ![g].loyalty = redeem_points(@, points_to_redeem).loyalty]
    /\ UNCHANGED <<room, booking>>

NextLoyalty ==
    \/ \E g \in Guests, stay_value \in StayValues : EarnPoints(g, stay_value)
    \/ \E g \in Guests, points_to_redeem \in RedeemPoints : RedeemPointsCall(g, points_to_redeem)

SpecLoyalty == InitLoyalty /\ [][NextLoyalty]_vars

Loyalty(g) == guest[g].loyalty

\* C26: the balance starts at 0, earn_points with a whole amount adds that
\* amount, a successful redeem_points subtracts the points redeemed and
\* nothing else changes the balance, so the balance is the points earned
\* minus the points successfully redeemed; it is never negative; and
\* redeem_points for more than the balance raises the insufficient-points
\* error and leaves balance and tier unchanged.
C26_LoyaltyBalance ==
    /\ [](\A g \in Guests :
            /\ Loyalty(g).points >= 0
            /\ \A n \in RedeemPoints :
                  n > Loyalty(g).points =>
                      redeem_points(Loyalty(g), n) =
                          [ret |-> InsufficientPoints, value |-> 0, loyalty |-> Loyalty(g)])
    /\ [][\A g \in Guests :
            /\ \A v \in StayValues :
                  v % 2 = 0 /\ EarnPoints(g, v) =>
                      Loyalty(g)'.points = Loyalty(g).points + v \div 2
            /\ \A n \in RedeemPoints :
                  RedeemPointsCall(g, n) =>
                      IF n > Loyalty(g).points
                      THEN UNCHANGED vars
                      ELSE Loyalty(g)'.points = Loyalty(g).points - n]_vars

\* a Silver account short of Gold: redeeming 1000 points succeeds on it and
\* redeeming 5000 points is refused
C26_Witness ==
    \E g \in Guests :
        /\ Loyalty(g).tier = "Silver"
        /\ Loyalty(g).points > Silver /\ Loyalty(g).points < Gold
        /\ redeem_points(Loyalty(g), Silver).ret = Redeemed
        /\ redeem_points(Loyalty(g), Gold).ret = InsufficientPoints

====
